---- MODULE Spec2Model ----
(***************************************************************************)
(* Quest & Daily-Claim Ledger (contracts/QuestTracker.sol) together with   *)
(* the two API routes that drive it (/api/complete-quest, /api/claim-     *)
(* daily) and the reward minter (distributeReward).                        *)
(*                                                                         *)
(* The ledger executes every call atomically (one transaction at a time).  *)
(* A call either reverts with the message of the first failing require,    *)
(* leaving storage untouched, or runs to its end.                          *)
(***************************************************************************)
EXTENDS Integers, Sequences, FiniteSets, TLC

(***************************************************************************)
(* Bounds of the model.                                                    *)
(***************************************************************************)
\* the clock (block.timestamp) runs from 0 to MaxTime
MaxTime == 7
\* the clock of the runs that create and complete quests stops at MaxQuestTime
MaxQuestTime == 3
\* the clock of the runs that serve HTTP requests stops at MaxRouteTime
MaxRouteTime == 4
\* createQuest is called successfully at most MaxQuests times
MaxQuests == 2
\* number of HTTP requests served in a run that follows the verification of
\* quest requirements
MaxVerifyRequests == 1
\* the runs that call every function of the contract create at most
\* MaxLedgerQuests quests and their clock stops at MaxLedgerTime
MaxLedgerQuests == 1
MaxLedgerTime == 3
\* number of HTTP requests the routes serve in one run
MaxRequests == 2

(***************************************************************************)
(* Program constants.  The clock unit is 30 minutes, so that the           *)
(* contract's "1 hours" is 2 ticks.                                        *)
(***************************************************************************)
OneHour == 2
\* the amount both routes pass to distributeReward
RouteRewardAmount == 1
\* minimumRequired of quest 3, in units of 0.001 of the native token
MinNativeBalance == 1
\* minimumRequired of quest 4, in tokens
MinTokenBalance == 50
\* the NaN that parseFloat and parseInt give for a value that is no number; it
\* stands outside the balances, which are not negative
NaN == -1

(***************************************************************************)
(* Identities.  ZeroAddress is address(0).  "alice" and "bob" are user     *)
(* wallets; a user wallet calling the contract directly is a caller that   *)
(* holds no role.                                                          *)
(***************************************************************************)
ZeroAddress == "0x0"
Deployer == "deployer"
BackendWallet == "backend"
Users == {ZeroAddress, "alice", "bob"}
Callers == {Deployer, BackendWallet, "alice"}
\* constructor arguments the model deploys with (_claimCooldown >= 1 hours,
\* _dailyRewardAmount > 0)
CooldownChoices == {OneHour, OneHour + 1}
DailyRewardChoices == {5}

(***************************************************************************)
(* Revert messages of the contract, and "ok" for a call that ran to its    *)
(* end.                                                                    *)
(***************************************************************************)
Ok == "ok"
MsgOnlyOwner == "Only owner can call this function"
MsgNoQuest == "Quest does not exist"
MsgNotActive == "Quest is not active"
MsgExpired == "Quest has expired"
MsgOnlyOwnerOrBackendQuest == "Only owner or backend can complete quests"
MsgOnlyOwnerOrBackendDaily == "Only owner or backend can set daily claimed"
MsgInvalidUser == "Invalid user address"
MsgAlreadyCompleted == "Quest already completed"
MsgCooldown == "Daily claim cooldown not met"
MsgEndDate == "End date must be in the future"
\* a call whose selector matches no function of the contract reverts (the
\* contract declares no fallback function)
MsgNoFunction == "function selector was not recognized"
\* the panic of an array access out of bounds
MsgPanic == "panic: array out-of-bounds access"
MsgNoRequirement == "Quest must have at least one requirement"

\* The failure kind of the specification's taxonomy that a revert message
\* stands for.
ErrorKind(msg) ==
    CASE msg = Ok -> "Success"
      [] msg \in {MsgOnlyOwner, MsgOnlyOwnerOrBackendQuest,
                  MsgOnlyOwnerOrBackendDaily} -> "Unauthorized"
      [] msg = MsgNoQuest -> "NotFound"
      [] msg \in {MsgNotActive, MsgExpired} -> "QuestUnavailable"
      [] msg = MsgInvalidUser -> "InvalidUser"
      [] msg = MsgAlreadyCompleted -> "AlreadyCompleted"
      [] msg = MsgCooldown -> "CooldownActive"
      [] msg = MsgEndDate -> "InvalidSchedule"
      [] msg = MsgNoRequirement -> "InvalidQuest"
      [] OTHER -> "Other"

VARIABLES
    now,                  \* block.timestamp
    owner,                \* address public owner
    claimCooldown,        \* uint256 public immutable claimCooldown
    dailyRewardAmount,    \* uint256 public immutable dailyRewardAmount
    questCounter,         \* uint256 public questCounter
    quests,               \* mapping(uint256 => Quest)
    userQuests,           \* mapping(address => mapping(uint256 => UserProgress))
    totalQuestsCompleted, \* mapping(address => uint256)
    dailyClaims,          \* mapping(address => DailyClaim)
    questLog,             \* ids of the QuestCreated events, in emission order
    claimLog,             \* per user, the times of the DailyClaimed events, in order
    last,                 \* the call made by the latest step, with its outcome
    reqs,                 \* the HTTP requests served by the routes
    txpool,               \* ledger transactions accepted by the relay, not yet executed
    mintLog               \* mintTo transactions accepted by the relay, in order

logVars == <<questLog, claimLog>>
ledgerVars == <<owner, claimCooldown, dailyRewardAmount, questCounter, quests,
                userQuests, totalQuestsCompleted, dailyClaims>>
routeVars == <<reqs, txpool, mintLog>>
vars == <<now, owner, claimCooldown, dailyRewardAmount, questCounter, quests,
          userQuests, totalQuestsCompleted, dailyClaims, questLog, claimLog, last,
          reqs, txpool, mintLog>>

QuestIds == 1..MaxQuests

\* storage defaults (every mapping slot reads as zero before it is written)
ZeroQuest == [id |-> 0, title |-> "", description |-> "", reward |-> 0,
              requirements |-> <<>>, estimatedTimeMinutes |-> 0,
              isActive |-> FALSE, createdAt |-> 0, endDate |-> 0]
ZeroProgress == [completed |-> FALSE, completedAt |-> 0]
ZeroClaim == [lastClaimTime |-> 0, claimed |-> FALSE]

NoCall == [op |-> "none", caller |-> ZeroAddress, user |-> ZeroAddress,
           questId |-> 0, title |-> "", reward |-> 0, endDate |-> 0,
           requirements |-> <<>>, result |-> Ok, returns |-> <<>>,
           events |-> <<>>]

(***************************************************************************)
(* Modifiers and require chains.  Each operator gives the message of the   *)
(* first require that fails, in the order the contract evaluates them, or  *)
(* Ok.                                                                     *)
(***************************************************************************)
\* onlyOwner that lets the backend wallet through as well
onlyOwner_OrBackend(sender) == sender = owner \/ sender = BackendWallet

onlyOwner(sender) == sender = owner

\* questExists with an upper limit one too high
questExists_OffByOne(questId) == questId > 0 /\ questId <= questCounter + 1

questExists(questId) == questId > 0 /\ questId <= questCounter

\* questIsActive with the expiry test off by one (< for <=)
questIsActive_StrictExpiry(questId) ==
    IF ~quests[questId].isActive THEN MsgNotActive
    ELSE IF ~(now < quests[questId].endDate) THEN MsgExpired
    ELSE Ok

\* questIsActive without the expiry test
questIsActive_NoExpiry(questId) ==
    IF ~quests[questId].isActive THEN MsgNotActive
    ELSE Ok

\* modifier questIsActive: the message of its first failing require, or Ok
questIsActive(questId) ==
    IF ~quests[questId].isActive THEN MsgNotActive
    ELSE IF ~(now <= quests[questId].endDate) THEN MsgExpired
    ELSE Ok

\* createQuest accepting an endDate equal to the block time (>= for >)
createQuestResult_EndDateNotStrict(sender, endDate, requirements) ==
    IF ~onlyOwner(sender) THEN MsgOnlyOwner
    ELSE IF ~(endDate >= now) THEN MsgEndDate
    ELSE IF ~(Len(requirements) > 0) THEN MsgNoRequirement
    ELSE Ok

\* createQuest without the require on the number of requirements
createQuestResult_NoRequirementCheck(sender, endDate, requirements) ==
    IF ~onlyOwner(sender) THEN MsgOnlyOwner
    ELSE IF ~(endDate > now) THEN MsgEndDate
    ELSE Ok

createQuestResult(sender, endDate, requirements) ==
    IF ~onlyOwner(sender) THEN MsgOnlyOwner
    ELSE IF ~(endDate > now) THEN MsgEndDate
    ELSE IF ~(Len(requirements) > 0) THEN MsgNoRequirement
    ELSE Ok

\* completeQuestForUser without the require on the completed flag
completeQuestForUserResult_NoReplayCheck(sender, user, questId) ==
    IF ~questExists(questId) THEN MsgNoQuest
    ELSE IF questIsActive(questId) # Ok THEN questIsActive(questId)
    ELSE IF ~(sender = owner \/ sender = BackendWallet)
         THEN MsgOnlyOwnerOrBackendQuest
    ELSE IF ~(user # ZeroAddress) THEN MsgInvalidUser
    ELSE Ok

\* completeQuestForUser without the require on the user address
completeQuestForUserResult_NoUserCheck(sender, user, questId) ==
    IF ~questExists(questId) THEN MsgNoQuest
    ELSE IF questIsActive(questId) # Ok THEN questIsActive(questId)
    ELSE IF ~(sender = owner \/ sender = BackendWallet)
         THEN MsgOnlyOwnerOrBackendQuest
    ELSE IF userQuests[user][questId].completed THEN MsgAlreadyCompleted
    ELSE Ok

completeQuestForUserResult(sender, user, questId) ==
    IF ~questExists(questId) THEN MsgNoQuest
    ELSE IF questIsActive(questId) # Ok THEN questIsActive(questId)
    ELSE IF ~(sender = owner \/ sender = BackendWallet)
         THEN MsgOnlyOwnerOrBackendQuest
    ELSE IF ~(user # ZeroAddress) THEN MsgInvalidUser
    ELSE IF userQuests[user][questId].completed THEN MsgAlreadyCompleted
    ELSE Ok

\* setDailyClaimed with the cooldown test off by one (> for >=)
setDailyClaimedResult_StrictCooldown(sender, user) ==
    IF ~(sender = owner \/ sender = BackendWallet)
    THEN MsgOnlyOwnerOrBackendDaily
    ELSE IF ~(user # ZeroAddress) THEN MsgInvalidUser
    ELSE IF ~(now > dailyClaims[user].lastClaimTime + claimCooldown)
         THEN MsgCooldown
    ELSE Ok

setDailyClaimedResult(sender, user) ==
    IF ~(sender = owner \/ sender = BackendWallet)
    THEN MsgOnlyOwnerOrBackendDaily
    ELSE IF ~(user # ZeroAddress) THEN MsgInvalidUser
    ELSE IF ~(now >= dailyClaims[user].lastClaimTime + claimCooldown)
         THEN MsgCooldown
    ELSE Ok

(***************************************************************************)
(* Views.                                                                  *)
(***************************************************************************)
RECURSIVE scanCompleted(_, _, _, _)
\* the loop of getUserDetails: arr is the array being filled, idx is
\* completedIndex; writing past the end of arr panics
scanCompleted(user, i, arr, idx) ==
    IF i > questCounter THEN arr
    ELSE IF userQuests[user][i].completed
         THEN IF idx + 1 > Len(arr) THEN <<-1>>
              ELSE scanCompleted(user, i + 1, [arr EXCEPT ![idx + 1] = i], idx + 1)
         ELSE scanCompleted(user, i + 1, arr, idx)

\* the array allocated one slot too short
completedQuestIds_Undersized(user) ==
    scanCompleted(user, 1, [k \in 1..(totalQuestsCompleted[user] - 1) |-> 0], 0)

\* the array allocated one slot too long
completedQuestIds_Oversized(user) ==
    scanCompleted(user, 1, [k \in 1..(totalQuestsCompleted[user] + 1) |-> 0], 0)

completedQuestIds(user) ==
    scanCompleted(user, 1, [k \in 1..totalQuestsCompleted[user] |-> 0], 0)

\* canClaimDaily with the cooldown test off by one (> for >=)
canClaimDaily_Strict(user) ==
    IF dailyClaims[user].lastClaimTime = 0 THEN TRUE
    ELSE now - dailyClaims[user].lastClaimTime > claimCooldown

canClaimDaily(user) ==
    IF dailyClaims[user].lastClaimTime = 0 THEN TRUE
    ELSE now - dailyClaims[user].lastClaimTime >= claimCooldown

\* timeUntilNextClaim giving the time since the last claim instead of the time left
timeUntilNextClaim_Elapsed(user) ==
    IF canClaimDaily(user) THEN 0
    ELSE now - dailyClaims[user].lastClaimTime

timeUntilNextClaim(user) ==
    IF canClaimDaily(user) THEN 0
    ELSE claimCooldown - (now - dailyClaims[user].lastClaimTime)

getUserDetails(user) ==
    [completedQuestIds |-> completedQuestIds(user),
     totalQuestsCompleted |-> totalQuestsCompleted[user],
     dailyClaimInfo |-> dailyClaims[user],
     canClaimDaily |-> canClaimDaily(user),
     timeUntilNextClaim |-> timeUntilNextClaim(user)]

\* getUserDetails reverts when its loop writes past the end of the array
getUserDetailsResult(user) ==
    IF completedQuestIds(user) = <<-1>> THEN MsgPanic ELSE Ok

\* modifier questExists of getQuest
getQuestResult(questId) == IF ~questExists(questId) THEN MsgNoQuest ELSE Ok

getQuest(questId) == quests[questId]

\* the array of getAllQuests in reverse order
getAllQuests_Reversed == [i \in 1..questCounter |-> quests[questCounter + 1 - i]]

\* allQuests[i] = quests[i + 1] for i = 0..questCounter - 1; sequences count from 1
getAllQuests == [i \in 1..questCounter |-> quests[i]]

getTotalQuests == questCounter

(***************************************************************************)
(* Ledger calls.  Each *Call operator is the whole transaction: the        *)
(* require chain, then the writes and the event.                           *)
(***************************************************************************)
\* the counter incremented twice
nextQuestId_Skip == questCounter + 2

\* questCounter++ : the id the new quest gets
nextQuestId == questCounter + 1

\* the record of a quest stored as not active
newQuest_Inactive(id, title, description, reward, requirements, estimatedTimeMinutes, endDate) ==
    [id |-> id, title |-> title, description |-> description, reward |-> reward,
     requirements |-> requirements, estimatedTimeMinutes |-> estimatedTimeMinutes,
     isActive |-> FALSE, createdAt |-> now, endDate |-> endDate]

\* the record createQuest stores under the new id
newQuest(id, title, description, reward, requirements, estimatedTimeMinutes, endDate) ==
    [id |-> id, title |-> title, description |-> description, reward |-> reward,
     requirements |-> requirements, estimatedTimeMinutes |-> estimatedTimeMinutes,
     isActive |-> TRUE, createdAt |-> now, endDate |-> endDate]

\* a createQuest declared with `returns (uint256)` that returns the new id
createQuestReturns_Id(id) == <<id>>

\* createQuest is declared without a returns clause: its caller gets no value
createQuestReturns(id) == <<>>

createQuestCall(sender, title, description, reward, requirements, estimatedTimeMinutes, endDate) ==
    LET res == createQuestResult(sender, endDate, requirements)
        id == nextQuestId
    IN  /\ last' = [NoCall EXCEPT
                      !.op = "createQuest", !.caller = sender,
                      !.questId = IF res = Ok THEN id ELSE 0,
                      !.title = title, !.reward = reward, !.endDate = endDate,
                      !.requirements = requirements, !.result = res,
                      !.returns = IF res = Ok THEN createQuestReturns(id) ELSE <<>>,
                      !.events = IF res = Ok
                                 THEN <<[name |-> "QuestCreated", questId |-> id,
                                         title |-> title, reward |-> reward,
                                         endDate |-> endDate]>>
                                 ELSE <<>>]
        /\ IF res = Ok
           THEN /\ questCounter' = id
                /\ quests' = [quests EXCEPT ![id] =
                                newQuest(id, title, description, reward, requirements,
                                         estimatedTimeMinutes, endDate)]
                /\ questLog' = Append(questLog, id)
           ELSE UNCHANGED <<questCounter, quests, questLog>>
        /\ UNCHANGED <<now, owner, claimCooldown, dailyRewardAmount, userQuests,
                       totalQuestsCompleted, dailyClaims, claimLog>>

\* the progress record written without the completion time
markCompleted_NoTimestamp(user, questId) ==
    [userQuests EXCEPT ![user][questId] = [completed |-> TRUE, completedAt |-> 0]]

\* the progress record written without setting the flag
markCompleted_NoFlag(user, questId) ==
    [userQuests EXCEPT ![user][questId] = [completed |-> FALSE, completedAt |-> now]]

\* userQuests[_user][_questId] = UserProgress({completed: true, completedAt: block.timestamp})
markCompleted(user, questId) ==
    [userQuests EXCEPT ![user][questId] = [completed |-> TRUE, completedAt |-> now]]

\* the counter left as it was
countCompleted_Forget(user) == totalQuestsCompleted

\* the counter of every user incremented
countCompleted_Everyone(user) ==
    [u \in Users |-> totalQuestsCompleted[u] + 1]

\* totalQuestsCompleted[_user]++
countCompleted(user) ==
    [totalQuestsCompleted EXCEPT ![user] = @ + 1]

completeQuestForUserCall(sender, user, questId) ==
    LET res == completeQuestForUserResult(sender, user, questId)
    IN  /\ last' = [NoCall EXCEPT
                      !.op = "completeQuestForUser", !.caller = sender,
                      !.user = user, !.questId = questId, !.result = res,
                      !.events = IF res = Ok
                                 THEN <<[name |-> "QuestCompleted", user |-> user,
                                         questId |-> questId]>>
                                 ELSE <<>>]
        /\ IF res = Ok
           THEN /\ userQuests' = markCompleted(user, questId)
                /\ totalQuestsCompleted' = countCompleted(user)
           ELSE UNCHANGED <<userQuests, totalQuestsCompleted>>
        /\ UNCHANGED <<now, owner, claimCooldown, dailyRewardAmount, questCounter,
                       quests, dailyClaims, questLog, claimLog>>

\* the daily claim written without setting the flag
markClaimed_NoFlag(user) ==
    [dailyClaims EXCEPT ![user] = [lastClaimTime |-> now, claimed |-> @.claimed]]

\* the daily claim stored with the time of the next claim instead of this one
markClaimed_NextWindow(user) ==
    [dailyClaims EXCEPT ![user] = [lastClaimTime |-> now + claimCooldown,
                                   claimed |-> TRUE]]

\* dailyClaims[_user].lastClaimTime = currentTime; dailyClaims[_user].claimed = true
markClaimed(user) ==
    [dailyClaims EXCEPT ![user] = [lastClaimTime |-> now, claimed |-> TRUE]]

\* setDailyClaimed storing the claim before the cooldown test, and keeping it
\* when the test fails
setDailyClaimedCall_WriteBeforeCheck(sender, user) ==
    LET res == setDailyClaimedResult(sender, user)
    IN  /\ last' = [NoCall EXCEPT
                      !.op = "setDailyClaimed", !.caller = sender, !.user = user,
                      !.result = res,
                      !.events = IF res = Ok
                                 THEN <<[name |-> "DailyClaimed", user |-> user,
                                         amount |-> dailyRewardAmount]>>
                                 ELSE <<>>]
        /\ dailyClaims' = IF res \in {Ok, MsgCooldown} THEN markClaimed(user)
                          ELSE dailyClaims
        /\ claimLog' = IF res = Ok THEN [claimLog EXCEPT ![user] = Append(@, now)]
                       ELSE claimLog
        /\ UNCHANGED <<now, owner, claimCooldown, dailyRewardAmount, questCounter,
                       quests, userQuests, totalQuestsCompleted, questLog>>

setDailyClaimedCall(sender, user) ==
    LET res == setDailyClaimedResult(sender, user)
    IN  /\ last' = [NoCall EXCEPT
                      !.op = "setDailyClaimed", !.caller = sender, !.user = user,
                      !.result = res,
                      !.events = IF res = Ok
                                 THEN <<[name |-> "DailyClaimed", user |-> user,
                                         amount |-> dailyRewardAmount]>>
                                 ELSE <<>>]
        /\ IF res = Ok
           THEN /\ dailyClaims' = markClaimed(user)
                /\ claimLog' = [claimLog EXCEPT ![user] = Append(@, now)]
           ELSE UNCHANGED <<dailyClaims, claimLog>>
        /\ UNCHANGED <<now, owner, claimCooldown, dailyRewardAmount, questCounter,
                       quests, userQuests, totalQuestsCompleted, questLog>>

(***************************************************************************)
(* Direct calls to the contract, by any caller with any arguments.  `last` *)
(* holds the call of the transaction just executed until its outcome has   *)
(* been returned; the next transaction starts after that.                  *)
(***************************************************************************)
\* endDate arguments tried by CreateQuest: behind now, now (not in the future)
\* and ahead; endDate is a uint256
EndDateChoices == {now - 1, now, now + 1} \cap Nat

\* createQuest called with a title, a reward and requirements from the given sets
CreateQuestWith(titles, rewards, requirementLists, endDates) ==
    /\ last = NoCall
    /\ questCounter < MaxQuests
    /\ \E sender \in Callers, title \in titles, reward \in rewards,
          requirements \in requirementLists, endDate \in endDates :
          createQuestCall(sender, title, "description", reward, requirements, 30,
                          endDate)
    /\ UNCHANGED routeVars

CreateQuest ==
    CreateQuestWith({"quest"}, {50}, {<<>>, <<"requirement">>}, EndDateChoices)

CompleteQuestForUser ==
    /\ last = NoCall
    /\ \E sender \in Callers, user \in Users, questId \in 0..(questCounter + 1) :
          completeQuestForUserCall(sender, user, questId)
    /\ UNCHANGED routeVars

SetDailyClaimed ==
    /\ last = NoCall
    /\ \E sender \in Callers, user \in Users : setDailyClaimedCall(sender, user)
    /\ UNCHANGED routeVars

\* the outcome of the transaction is returned to its sender
Return ==
    /\ last # NoCall
    /\ last' = NoCall
    /\ UNCHANGED <<now, ledgerVars, logVars, routeVars>>

\* a later block: the clock advances
Advance(limit) ==
    /\ last = NoCall
    /\ now < limit
    /\ now' = now + 1
    /\ UNCHANGED <<ledgerVars, logVars, last, routeVars>>

Tick == Advance(MaxTime)
TickQuests == Advance(MaxQuestTime)
TickRoutes == Advance(MaxRouteTime)
TickLedger == Advance(MaxLedgerTime)

\* the state the constructor leaves
Init ==
    /\ now = 0
    /\ owner = Deployer
    /\ claimCooldown \in CooldownChoices
    /\ dailyRewardAmount \in DailyRewardChoices
    /\ questCounter = 0
    /\ quests = [q \in QuestIds |-> ZeroQuest]
    /\ userQuests = [u \in Users |-> [q \in QuestIds |-> ZeroProgress]]
    /\ totalQuestsCompleted = [u \in Users |-> 0]
    /\ dailyClaims = [u \in Users |-> ZeroClaim]
    /\ questLog = <<>>
    /\ claimLog = [u \in Users |-> <<>>]
    /\ last = NoCall
    /\ reqs = <<>>
    /\ txpool = {}
    /\ mintLog = <<>>

(***************************************************************************)
(* Quest runs: quests are created and completed by direct calls.           *)
(***************************************************************************)
InitQuests == Init /\ claimCooldown = OneHour

NextQuests ==
    \/ CreateQuest
    \/ CompleteQuestForUser
    \/ TickQuests
    \/ Return

SpecQuests == InitQuests /\ [][NextQuests]_vars

(***************************************************************************)
(* Owner-side runs: quests are created with varying titles, rewards and    *)
(* requirements, and callers try to retire quests.  The contract has no    *)
(* deactivateQuest function (its README documents one), so such a call     *)
(* reverts without touching storage.                                       *)
(***************************************************************************)
TitleChoices == {"quest", "other quest"}
RewardChoices == {0, 50}
RequirementChoices == {<<>>, <<"first", "second">>}

CreateQuestAny ==
    CreateQuestWith(TitleChoices, RewardChoices, RequirementChoices, EndDateChoices)

\* a call that hands the owner role to its address argument when the owner
\* makes it
unknownFunctionCall_TransfersOwner(sender, name, user, questId) ==
    /\ last' = [NoCall EXCEPT !.op = name, !.caller = sender, !.user = user,
                              !.questId = questId,
                              !.result = IF sender = owner THEN Ok ELSE MsgOnlyOwner]
    /\ owner' = IF sender = owner THEN user ELSE owner
    /\ UNCHANGED <<now, claimCooldown, dailyRewardAmount, questCounter, quests,
                   userQuests, totalQuestsCompleted, dailyClaims, logVars>>

\* a call that deletes the quest record it names
unknownFunctionCall_DeletesQuest(sender, name, user, questId) ==
    /\ last' = [NoCall EXCEPT !.op = name, !.caller = sender, !.user = user,
                              !.questId = questId,
                              !.result = IF questExists(questId) THEN Ok ELSE MsgNoQuest]
    /\ quests' = IF questExists(questId)
                 THEN [quests EXCEPT ![questId] = ZeroQuest]
                 ELSE quests
    /\ UNCHANGED <<now, owner, claimCooldown, dailyRewardAmount, questCounter,
                   userQuests, totalQuestsCompleted, dailyClaims, logVars>>

\* a transaction calling a function the contract does not have
unknownFunctionCall(sender, name, user, questId) ==
    /\ last' = [NoCall EXCEPT !.op = name, !.caller = sender, !.user = user,
                              !.questId = questId, !.result = MsgNoFunction]
    /\ UNCHANGED <<now, ledgerVars, logVars>>

DeactivateQuest ==
    /\ last = NoCall
    /\ \E sender \in Callers, questId \in 0..(questCounter + 1) :
          unknownFunctionCall(sender, "deactivateQuest", ZeroAddress, questId)
    /\ UNCHANGED routeVars

\* the contract has no function that writes owner after the constructor; a
\* caller tries one
TransferOwnership ==
    /\ last = NoCall
    /\ \E sender \in Callers, newOwner \in Users :
          unknownFunctionCall(sender, "transferOwnership", newOwner, 0)
    /\ UNCHANGED routeVars

NextAdmin ==
    \/ CreateQuestAny
    \/ DeactivateQuest
    \/ TransferOwnership
    \/ TickQuests
    \/ Return

SpecAdmin == InitQuests /\ [][NextAdmin]_vars

(***************************************************************************)
(* Whole-contract runs: every function of the contract, and the functions  *)
(* callers expect it to have, are called directly, by any caller with any  *)
(* arguments.                                                              *)
(***************************************************************************)
CreateQuestLedger ==
    /\ questCounter < MaxLedgerQuests
    /\ CreateQuest

NextLedger ==
    \/ CreateQuestLedger
    \/ CompleteQuestForUser
    \/ SetDailyClaimed
    \/ DeactivateQuest
    \/ TransferOwnership
    \/ TickLedger
    \/ Return

SpecLedger == InitQuests /\ [][NextLedger]_vars

(***************************************************************************)
(* Daily-claim runs: daily claims are recorded by direct calls.            *)
(***************************************************************************)
NextDaily ==
    \/ SetDailyClaimed
    \/ Tick
    \/ Return

SpecDaily == Init /\ [][NextDaily]_vars

(***************************************************************************)
(* Daily-claim runs under advancing time.  Blocks keep being produced, so  *)
(* the clock step is taken again and again (strong fairness: it is         *)
(* disabled while a transaction is being executed), and every transaction  *)
(* returns.  The run is cut off at MaxTime, so setDailyClaimed is called   *)
(* only while the cooldown it may start ends within the run.               *)
(***************************************************************************)
SetDailyClaimedInTime ==
    /\ now + claimCooldown <= MaxTime
    /\ SetDailyClaimed

NextDailyLive ==
    \/ SetDailyClaimedInTime
    \/ Tick
    \/ Return

SpecDailyLive ==
    Init /\ [][NextDailyLive]_vars /\ SF_vars(Tick) /\ WF_vars(Return)

(***************************************************************************)
(* The API routes.  A route handler runs from one await to the next.  The  *)
(* three awaits that matter are HTTP requests to the relay                 *)
(* (makeThirdwebRequest): it resolves with the relay's answer when the     *)
(* HTTP status is 2xx and throws otherwise, which sends the handler to     *)
(* its catch block.  For /v1/contracts/write a 2xx answer says that the    *)
(* relay has taken the transaction; the handlers read nothing else from    *)
(* it (response.data is only echoed to the client), so the outcome of the  *)
(* transaction on the ledger is no input of theirs.  The transaction is    *)
(* executed by the ledger, atomically, at some later step.                 *)
(***************************************************************************)
\* process.env.ADMIN_ADDRESS: the "from" of every write
AdminAddress == BackendWallet
\* userAddress values of the request bodies
RouteAddresses == {"alice", "bogus"}
\* questId values of the request bodies: 1 is the free quest, 2 the tweet quest
RouteQuestIds == {1, 2}

\* /^0x[a-fA-F0-9]{40}$/
isValidAddress(address) == address \in Users

RequestIds == 1..Len(reqs)

NewRequest(route, user, questId) ==
    [route |-> route, user |-> user, questId |-> questId, pc |-> "done",
     ledger |-> "none", execAt |-> 0, minted |-> FALSE, threw |-> "none",
     status |-> 0, error |-> "", typed |-> "number", checked |-> "skipped",
     read |-> <<>>, details |-> <<>>]

\* the handler returns a response: its HTTP status and the `error` of its body
Respond(r, status, error) ==
    [reqs EXCEPT ![r].pc = "done", ![r].status = status, ![r].error = error]

\* the message of the Error that makeThirdwebRequest throws on an HTTP error
ThirdwebApiError == "Thirdweb API error"

\* the catch block of a handler: the response it builds from the message of
\* the Error it caught
catchResponse(route, message) ==
    CASE message = "Invalid user address provided" ->
            <<400, "Invalid recipient address">>
      [] message = "Reward amount must be greater than 0" ->
            <<400, "Reward amount must be greater than 0">>
      [] message = "environment variable is not set" ->
            <<500, "Server configuration error. Please contact support.">>
      [] OTHER ->
            IF route = "complete-quest"
            THEN <<500, "Failed to complete quest. Please try again.">>
            ELSE <<500, "Failed to claim daily reward. Please try again.">>

\* the await `awaited` of request r throws message: the handler answers from
\* its catch block
Catch(r, awaited, message) ==
    LET response == catchResponse(reqs[r].route, message)
    IN  [Respond(r, response[1], response[2]) EXCEPT ![r].threw = awaited]

\* a < b of JavaScript numbers: every comparison with NaN is false
jsLess(a, b) == IF a = NaN \/ b = NaN THEN FALSE ELSE a < b

\* questId === n for a number n: a questId that arrives as a JSON string is
\* not strictly equal to any number
strictEquals(questId, typed, n) == typed = "number" /\ questId = n

\* the balance test of quests 3 and 4 once the balance has been read: answer is
\* what the balance request gave ("error": it failed or threw, "nodata": an
\* answer without a result, "data"), balance the parsed number
balanceCheck(req, answer, balance, minimumRequired, onError, onNoData) ==
    IF answer = "error"
    THEN [req EXCEPT !.status = onError[1], !.error = onError[2], !.checked = "error"]
    ELSE IF answer = "nodata"
    THEN [req EXCEPT !.status = onNoData[1], !.error = onNoData[2],
                     !.checked = "error"]
    ELSE IF jsLess(balance, minimumRequired)
    THEN [req EXCEPT !.status = 400, !.error = "Insufficient balance",
                     !.checked = "failed"]
    ELSE [req EXCEPT !.pc = "write",
                     !.checked = IF balance = NaN THEN "nan" ELSE "passed"]

\* POST /api/complete-quest up to the ledger write: the request the handler
\* has after its validation and the verification of the quest's requirement.
\* typed is the JSON type of questId, tweetOk the outcome of verifyTweetMention,
\* answer and balance the outcome of the balance request.
completeQuestRequest(user, questId, typed, tweetOk, answer, balance) ==
    LET req == [NewRequest("complete-quest", user, questId) EXCEPT !.typed = typed]
    IN  IF ~isValidAddress(user)
        THEN [req EXCEPT !.status = 400, !.error = "Invalid wallet address format"]
        ELSE IF strictEquals(questId, typed, 2)
        THEN IF tweetOk
             THEN [req EXCEPT !.pc = "write", !.checked = "passed"]
             ELSE [req EXCEPT !.status = 400, !.checked = "failed",
                              !.error = "Tweet must mention @thirdweb to complete this quest"]
        ELSE IF strictEquals(questId, typed, 3)
        THEN balanceCheck(req, answer, balance, MinNativeBalance,
                          <<500, "Failed to verify wallet balance">>,
                          <<400, "Unable to retrieve wallet balance">>)
        ELSE IF strictEquals(questId, typed, 4)
        THEN balanceCheck(req, answer, balance, MinTokenBalance,
                          <<500, "Failed to verify token balance">>,
                          <<500, "Failed to fetch token balance">>)
        ELSE [req EXCEPT !.pc = "write"]

\* POST /api/complete-quest for the free quest and the tweet quest
PostCompleteQuest ==
    /\ last = NoCall
    /\ Len(reqs) < MaxRequests
    /\ \E user \in RouteAddresses, questId \in RouteQuestIds, verified \in BOOLEAN :
          reqs' = Append(reqs, completeQuestRequest(user, questId, "number", verified,
                                                    "data", 0))
    /\ UNCHANGED <<now, ledgerVars, logVars, last, txpool, mintLog>>

\* POST /api/claim-daily up to the getUserDetails read
PostClaimDaily ==
    /\ last = NoCall
    /\ Len(reqs) < MaxRequests
    /\ \E user \in RouteAddresses :
          LET req == NewRequest("claim-daily", user, 0)
          IN  reqs' = Append(reqs,
                  IF ~isValidAddress(user)
                  THEN [req EXCEPT !.status = 400,
                                   !.error = "Invalid wallet address format"]
                  ELSE [req EXCEPT !.pc = "read"])
    /\ UNCHANGED <<now, ledgerVars, logVars, last, txpool, mintLog>>

\* parseInt(x) || 0 of a uint256 the ledger returned: NaN and 0 both give 0
parseIntOrZero(x) == IF x = NaN \/ x = 0 THEN 0 ELSE x

\* the handler going on to the write whatever the read returned
checkClaimAvailable_NoPreCheck(r, contractData) ==
    [reqs EXCEPT ![r].pc = "write", ![r].read = <<contractData.canClaimDaily>>]

\* /api/claim-daily once getUserDetails has been read: contractData is the
\* tuple the ledger returned; the handler answers 400 with the details of the
\* claim when canClaimDaily is false, and goes on to the write otherwise
checkClaimAvailable(r, contractData) ==
    LET canClaim == contractData.canClaimDaily
        details == [canClaimDaily |-> canClaim,
                    timeUntilNextClaim |-> parseIntOrZero(contractData.timeUntilNextClaim),
                    lastClaimTime |->
                        parseIntOrZero(contractData.dailyClaimInfo.lastClaimTime)]
    IN  IF ~canClaim
        THEN [Respond(r, 400, "Daily claim is not available") EXCEPT
                 ![r].read = <<canClaim>>, ![r].details = <<details>>]
        ELSE [reqs EXCEPT ![r].pc = "write", ![r].read = <<canClaim>>]

\* the relay answers the read of /api/claim-daily: an HTTP error, an answer
\* without data, or the ledger's getUserDetails
RelayRead ==
    /\ last = NoCall
    /\ \E r \in RequestIds, answer \in {"error", "nodata", "data"} :
          /\ reqs[r].pc = "read"
          /\ reqs' = CASE answer = "error" -> Catch(r, "read", ThirdwebApiError)
                       [] answer = "nodata" ->
                            Respond(r, 400, "Unable to retrieve user details from contract")
                       [] OTHER -> checkClaimAvailable(r, getUserDetails(reqs[r].user))
    /\ UNCHANGED <<now, ledgerVars, logVars, last, txpool, mintLog>>

\* the relay answers the ledger write of either route: an HTTP error, or it
\* takes the transaction, and the handler goes on to distributeReward
RelayWrite ==
    /\ last = NoCall
    /\ \E r \in RequestIds, accepted \in BOOLEAN :
          /\ reqs[r].pc = "write"
          /\ IF accepted
             THEN /\ txpool' = txpool \cup {r}
                  /\ reqs' = [reqs EXCEPT ![r].pc = "mint", ![r].ledger = "pending"]
             ELSE /\ txpool' = txpool
                  /\ reqs' = Catch(r, "write", ThirdwebApiError)
    /\ UNCHANGED <<now, ledgerVars, logVars, last, mintLog>>

\* a catch block that undoes the ledger write of the request when the mint fails
catchMintError_Rollback(r) ==
    /\ mintLog' = mintLog
    /\ reqs' = Catch(r, "mint", ThirdwebApiError)
    /\ userQuests' = [userQuests EXCEPT ![reqs[r].user] =
                        [q \in QuestIds |->
                           IF q = reqs[r].questId THEN ZeroProgress ELSE @[q]]]
    /\ dailyClaims' = IF reqs[r].route = "claim-daily"
                      THEN [dailyClaims EXCEPT ![reqs[r].user] = ZeroClaim]
                      ELSE dailyClaims
    /\ UNCHANGED <<owner, claimCooldown, dailyRewardAmount, questCounter, quests,
                   totalQuestsCompleted>>

\* distributeReward throws in request r: the handler goes to its catch block,
\* which builds a response and calls nothing
catchMintError(r) ==
    /\ mintLog' = mintLog
    /\ reqs' = Catch(r, "mint", ThirdwebApiError)
    /\ UNCHANGED ledgerVars

\* the amount taken from the ledger: the reward stored for the quest, or
\* dailyRewardAmount
rewardAmount_FromLedger(r) ==
    IF reqs[r].route = "complete-quest" /\ reqs[r].questId \in QuestIds
    THEN quests[reqs[r].questId].reward
    ELSE dailyRewardAmount

\* the amount, in tokens, that the handler of request r passes to
\* distributeReward: the literal 1 in /api/complete-quest, the local constant
\* dailyRewardAmount = 1 in /api/claim-daily
rewardAmount(r) == RouteRewardAmount

\* the relay answers the mintTo write of distributeReward: an HTTP error, or it
\* takes the mint, and the handler responds with success
RelayMint ==
    /\ last = NoCall
    /\ \E r \in RequestIds, accepted \in BOOLEAN :
          /\ reqs[r].pc = "mint"
          /\ IF accepted
             THEN /\ mintLog' = Append(mintLog,
                         [req |-> r, to |-> reqs[r].user,
                          amount |-> rewardAmount(r)])
                  /\ reqs' = [Respond(r, 200, "") EXCEPT ![r].minted = TRUE]
                  /\ UNCHANGED ledgerVars
             ELSE catchMintError(r)
    /\ UNCHANGED <<now, logVars, last, txpool>>

\* the ledger executes a transaction the relay has taken
ExecuteTx ==
    /\ last = NoCall
    /\ \E r \in txpool :
          /\ IF reqs[r].route = "complete-quest"
             THEN completeQuestForUserCall(AdminAddress, reqs[r].user, reqs[r].questId)
             ELSE setDailyClaimedCall(AdminAddress, reqs[r].user)
          /\ reqs' = [reqs EXCEPT ![r].ledger = last'.result, ![r].execAt = now]
          /\ txpool' = txpool \ {r}
    /\ UNCHANGED mintLog

\* the ledger the routes run against: deployed with a cooldown of one hour, and
\* one hour later the owner has created quests 1 and 2, which end one tick later
InitRoutes ==
    /\ now = OneHour
    /\ owner = Deployer
    /\ claimCooldown = OneHour
    /\ dailyRewardAmount \in DailyRewardChoices
    /\ questCounter = 2
    /\ quests = [q \in QuestIds |->
                   IF q <= 2
                   THEN [id |-> q, title |-> "quest", description |-> "description",
                         reward |-> 50, requirements |-> <<"requirement">>,
                         estimatedTimeMinutes |-> 30, isActive |-> TRUE,
                         createdAt |-> OneHour, endDate |-> OneHour + 1]
                   ELSE ZeroQuest]
    /\ userQuests = [u \in Users |-> [q \in QuestIds |-> ZeroProgress]]
    /\ totalQuestsCompleted = [u \in Users |-> 0]
    /\ dailyClaims = [u \in Users |-> ZeroClaim]
    /\ questLog = <<1, 2>>
    /\ claimLog = [u \in Users |-> <<>>]
    /\ last = NoCall
    /\ reqs = <<>>
    /\ txpool = {}
    /\ mintLog = <<>>

NextRoutes ==
    \/ PostCompleteQuest
    \/ PostClaimDaily
    \/ RelayRead
    \/ RelayWrite
    \/ RelayMint
    \/ ExecuteTx
    \/ TickRoutes
    \/ Return

SpecRoutes == InitRoutes /\ [][NextRoutes]_vars

(***************************************************************************)
(* User-side runs: on the ledger the routes run against, completions and   *)
(* daily claims are recorded by direct calls, by any caller with any       *)
(* arguments.                                                              *)
(***************************************************************************)
NextUsers ==
    \/ CompleteQuestForUser
    \/ SetDailyClaimed
    \/ TickRoutes
    \/ Return

SpecUsers == InitRoutes /\ [][NextUsers]_vars

(***************************************************************************)
(* Read runs: on the ledger the routes run against, the view functions are *)
(* called between the completions and daily claims, by any caller with any *)
(* arguments.  A view function is executed as a call: it returns a value   *)
(* or reverts, and it cannot write storage or emit an event.               *)
(***************************************************************************)
\* a "view" call that leaves a trace in the daily-claim record of the user
viewCall_Touching(sender, op, user, questId, res, returns) ==
    /\ last' = [NoCall EXCEPT !.op = op, !.caller = sender, !.user = user,
                              !.questId = questId, !.result = res,
                              !.returns = IF res = Ok THEN returns ELSE <<>>]
    /\ dailyClaims' = [dailyClaims EXCEPT ![user].lastClaimTime = now]
    /\ UNCHANGED <<now, owner, claimCooldown, dailyRewardAmount, questCounter,
                   quests, userQuests, totalQuestsCompleted, logVars>>

\* a call of a view function: its outcome and the value it returns
viewCall(sender, op, user, questId, res, returns) ==
    /\ last' = [NoCall EXCEPT !.op = op, !.caller = sender, !.user = user,
                              !.questId = questId, !.result = res,
                              !.returns = IF res = Ok THEN returns ELSE <<>>]
    /\ UNCHANGED <<now, ledgerVars, logVars>>

GetUserDetails ==
    /\ last = NoCall
    /\ \E sender \in Callers, user \in Users :
          viewCall(sender, "getUserDetails", user, 0, getUserDetailsResult(user),
                   <<getUserDetails(user)>>)
    /\ UNCHANGED routeVars

GetQuest ==
    /\ last = NoCall
    /\ \E sender \in Callers, questId \in 0..(questCounter + 1) :
          viewCall(sender, "getQuest", ZeroAddress, questId, getQuestResult(questId),
                   IF getQuestResult(questId) = Ok THEN <<getQuest(questId)>> ELSE <<>>)
    /\ UNCHANGED routeVars

GetAllQuests ==
    /\ last = NoCall
    /\ \E sender \in Callers :
          viewCall(sender, "getAllQuests", ZeroAddress, 0, Ok, <<getAllQuests>>)
    /\ UNCHANGED routeVars

GetTotalQuests ==
    /\ last = NoCall
    /\ \E sender \in Callers :
          viewCall(sender, "getTotalQuests", ZeroAddress, 0, Ok, <<getTotalQuests>>)
    /\ UNCHANGED routeVars

NextViews ==
    \/ CompleteQuestForUser
    \/ SetDailyClaimed
    \/ GetUserDetails
    \/ GetQuest
    \/ GetAllQuests
    \/ GetTotalQuests
    \/ TickRoutes
    \/ Return

SpecViews == InitRoutes /\ [][NextViews]_vars

(***************************************************************************)
(* Catalogue runs: quests are created with varying titles, rewards and     *)
(* requirements, and the quest views are called in between.                *)
(***************************************************************************)
NextCatalogue ==
    \/ CreateQuestAny
    \/ GetQuest
    \/ GetAllQuests
    \/ GetTotalQuests
    \/ TickQuests
    \/ Return

SpecCatalogue == InitQuests /\ [][NextCatalogue]_vars

(***************************************************************************)
(* Verification runs: /api/complete-quest is called for any of the four    *)
(* quests of the application, with questId sent as a JSON number or as a   *)
(* JSON string, and with every outcome of the verification requests.  The  *)
(* ledger is the one the routes run against; it has quests 1 and 2, so a   *)
(* write for quest 3 or 4 reverts when it is executed.                     *)
(***************************************************************************)
\* the quests of the application: 1 free, 2 tweet, 3 native balance, 4 token
\* balance
AppQuestIds == 1..4

PostCompleteQuestChecked ==
    /\ last = NoCall
    /\ Len(reqs) < MaxVerifyRequests
    /\ \E user \in RouteAddresses, questId \in AppQuestIds,
          typed \in {"number", "string"}, tweetOk \in BOOLEAN,
          answer \in {"error", "nodata", "data"},
          balance \in {NaN, MinNativeBalance - 1, MinNativeBalance,
                       MinTokenBalance - 1, MinTokenBalance} :
          reqs' = Append(reqs, completeQuestRequest(user, questId, typed, tweetOk,
                                                    answer, balance))
    /\ UNCHANGED <<now, ledgerVars, logVars, last, txpool, mintLog>>

NextVerify ==
    \/ PostCompleteQuestChecked
    \/ RelayWrite
    \/ RelayMint
    \/ ExecuteTx
    \/ TickRoutes
    \/ Return

SpecVerify == InitRoutes /\ [][NextVerify]_vars

(***************************************************************************)
(* Properties.                                                             *)
(***************************************************************************)
\* the step is the execution of a call to `op`
CallStep(op) == last = NoCall /\ last'.op = op

\* the caller holds a role that may complete quests and record daily claims
HoldsRole(sender) == sender = owner \/ sender = BackendWallet

\* C1 (as amended): once a (user, quest) pair is completed, no later
\* completeQuestForUser call for the pair succeeds, a later call by the owner or
\* the backend made no later than the quest's endDate fails with
\* AlreadyCompleted, and the pair's completed flag and completedAt never change.
C1_OneWayCompletion ==
    [][\A u \in Users, q \in QuestIds :
         userQuests[u][q].completed =>
           /\ userQuests'[u][q] = userQuests[u][q]
           /\ (CallStep("completeQuestForUser") /\ last'.user = u /\ last'.questId = q) =>
                /\ last'.result # Ok
                /\ (HoldsRole(last'.caller) /\ now <= quests[q].endDate) =>
                      ErrorKind(last'.result) = "AlreadyCompleted"]_vars

\* C1 witness: a repeated completion has just been refused as already completed
C1_Witness ==
    /\ last.op = "completeQuestForUser"
    /\ last.result = MsgAlreadyCompleted
    /\ userQuests[last.user][last.questId].completed
    /\ userQuests[last.user][last.questId].completedAt < now

\* C1 as stated: once a pair is completed, every later completeQuestForUser call
\* for the pair (here: by a caller that holds a role) fails with AlreadyCompleted
\* and the record does not change.
C1_Original ==
    [][\A u \in Users, q \in QuestIds :
         userQuests[u][q].completed =>
           /\ userQuests'[u][q] = userQuests[u][q]
           /\ (CallStep("completeQuestForUser") /\ last'.user = u /\ last'.questId = q
               /\ HoldsRole(last'.caller)) =>
                 ErrorKind(last'.result) = "AlreadyCompleted"]_vars

\* C2: after a daily claim of a user recorded at t0, a setDailyClaimed call for
\* that user by the owner or the backend fails with CooldownActive, changing
\* nothing, at every time before t0 + claimCooldown, and succeeds at every time
\* from t0 + claimCooldown on.
C2_CooldownCorrectness ==
    [][\A u \in Users \ {ZeroAddress} :
         (/\ dailyClaims[u].claimed
          /\ CallStep("setDailyClaimed")
          /\ last'.user = u
          /\ HoldsRole(last'.caller)) =>
            LET t0 == dailyClaims[u].lastClaimTime
            IN  IF now < t0 + claimCooldown
                THEN /\ ErrorKind(last'.result) = "CooldownActive"
                     /\ dailyClaims' = dailyClaims
                ELSE /\ last'.result = Ok
                     /\ dailyClaims'[u] = [lastClaimTime |-> now, claimed |-> TRUE]]_vars

\* C2 witness: a second claim has just succeeded exactly claimCooldown after the
\* first
C2_Witness ==
    /\ last.op = "setDailyClaimed"
    /\ last.result = Ok
    /\ Len(claimLog[last.user]) >= 2
    /\ claimLog[last.user][Len(claimLog[last.user])]
         - claimLog[last.user][Len(claimLog[last.user]) - 1] = claimCooldown
    /\ now = dailyClaims[last.user].lastClaimTime

\* C3: a createQuest call by a caller other than the owner, and a
\* completeQuestForUser or setDailyClaimed call by a caller that is neither the
\* owner nor the backend, fails with Unauthorized whatever its arguments, and
\* changes nothing.
C3_AuthorityGating ==
    [][(\/ CallStep("createQuest") /\ ~onlyOwner(last'.caller)
        \/ CallStep("completeQuestForUser") /\ ~HoldsRole(last'.caller)
        \/ CallStep("setDailyClaimed") /\ ~HoldsRole(last'.caller)) =>
          /\ ErrorKind(last'.result) = "Unauthorized"
          /\ UNCHANGED <<ledgerVars, logVars>>]_vars

\* C4: the quests hold exactly the ids 1..questCounter, assigned in call order:
\* a successful createQuest takes the id questCounter + 1, a failed one changes
\* nothing, and no other step moves the counter.
C4_QuestIdUniqueness ==
    [][/\ questLog' = [i \in 1..questCounter' |-> i]
       /\ \A i \in QuestIds : quests'[i].id = IF i <= questCounter' THEN i ELSE 0
       /\ IF CallStep("createQuest")
          THEN IF last'.result = Ok
               THEN /\ questCounter' = questCounter + 1
                    /\ last'.questId = questCounter'
                    /\ questLog' = Append(questLog, questCounter')
               ELSE UNCHANGED <<questCounter, quests, questLog>>
          ELSE UNCHANGED <<questCounter, quests, questLog>>]_vars

\* C4 witness: the second quest has just been created
C4_Witness ==
    /\ last.op = "createQuest"
    /\ last.result = Ok
    /\ questCounter = 2
    /\ questLog = <<1, 2>>

\* C5: completeQuestForUser on an existing active quest fails with
\* QuestUnavailable at every time after the quest's endDate, is not refused as
\* unavailable at any time up to endDate, and at endDate itself a call by the
\* owner or the backend for a user who has not completed the quest succeeds.
C5_ExpiryEnforcement ==
    [][\A q \in QuestIds :
         (/\ CallStep("completeQuestForUser")
          /\ last'.questId = q
          /\ questExists(q)
          /\ quests[q].isActive) =>
            IF now > quests[q].endDate
            THEN /\ ErrorKind(last'.result) = "QuestUnavailable"
                 /\ UNCHANGED <<ledgerVars, logVars>>
            ELSE /\ ErrorKind(last'.result) # "QuestUnavailable"
                 /\ (/\ HoldsRole(last'.caller)
                     /\ last'.user # ZeroAddress
                     /\ ~userQuests[last'.user][q].completed) => last'.result = Ok]_vars

\* C5 witness: a completion by the backend has just been refused one tick after
\* the quest's endDate
C5_Witness ==
    /\ last.op = "completeQuestForUser"
    /\ last.caller = BackendWallet
    /\ last.user # ZeroAddress
    /\ last.result = MsgExpired
    /\ now = quests[last.questId].endDate + 1

\* C6: for every user the totalQuestsCompleted counter is the number of quest
\* ids in 1..questCounter completed by that user, and getUserDetails returns
\* exactly those ids, as many as its totalQuestsCompleted field says.
C6_DerivedViewConsistency ==
    \A u \in Users :
        LET done == {q \in 1..questCounter : userQuests[u][q].completed}
            d == getUserDetails(u)
            ids == {d.completedQuestIds[k] : k \in 1..Len(d.completedQuestIds)}
        IN  /\ totalQuestsCompleted[u] = Cardinality(done)
            /\ ids = done
            /\ d.totalQuestsCompleted = Cardinality(ids)

\* C6 witness: one user has completed two quests and another user one
C6_Witness ==
    \E u, v \in Users :
        /\ u # v
        /\ totalQuestsCompleted[u] = 2
        /\ totalQuestsCompleted[v] = 1
        /\ Len(getUserDetails(u).completedQuestIds) = 2

\* C7: for a user who has never claimed (lastClaimTime = 0), setDailyClaimed
\* called by the owner or the backend succeeds at every time, whatever the
\* cooldown.
C7_FirstClaimAlwaysAllowed ==
    [][\A u \in Users \ {ZeroAddress} :
         (/\ dailyClaims[u].lastClaimTime = 0
          /\ CallStep("setDailyClaimed")
          /\ last'.user = u
          /\ HoldsRole(last'.caller)) => last'.result = Ok]_vars

\* the completion attempts for a pair that the ledger has executed
Attempts(u, q) ==
    {r \in RequestIds : /\ reqs[r].route = "complete-quest"
                        /\ reqs[r].user = u
                        /\ reqs[r].questId = q
                        /\ reqs[r].ledger \notin {"none", "pending"}}

\* the attempts that applied the NotStarted -> Completed transition
Won(u, q) == {r \in Attempts(u, q) : reqs[r].ledger = Ok}

\* C8 (as amended): for any interleaving of completion attempts for one (user,
\* quest) pair, at most one attempt applies the transition, the pair is completed
\* exactly when one did, the user's counter is incremented once per completed
\* quest, and every other executed attempt fails: with AlreadyCompleted when it
\* is executed after the winner and no later than the quest's endDate, with
\* QuestUnavailable when it is executed after endDate.
C8_ConcurrentCompletion ==
    \A u \in Users \ {ZeroAddress} :
        /\ totalQuestsCompleted[u] = Cardinality({q \in QuestIds : Won(u, q) # {}})
        /\ \A q \in QuestIds :
              /\ Cardinality(Won(u, q)) <= 1
              /\ userQuests[u][q].completed <=> Won(u, q) # {}
              /\ \A w \in Won(u, q) : \A r \in Attempts(u, q) \ {w} :
                    ErrorKind(reqs[r].ledger) =
                        IF reqs[r].execAt <= quests[q].endDate
                        THEN "AlreadyCompleted"
                        ELSE "QuestUnavailable"

\* C8 witness: of two executed attempts for one pair, one has won and the other
\* was refused as already completed
C8_Witness ==
    \E u \in Users, q \in QuestIds : \E w \in Won(u, q) : \E r \in Attempts(u, q) :
        /\ r # w
        /\ reqs[r].ledger = MsgAlreadyCompleted
        /\ totalQuestsCompleted[u] = 1

\* C8 as stated: of the executed attempts for one pair, exactly one applies the
\* transition and every other one observes AlreadyCompleted.
C8_Original ==
    \A u \in Users \ {ZeroAddress}, q \in QuestIds :
        \A w \in Won(u, q) :
            /\ Won(u, q) = {w}
            /\ \A r \in Attempts(u, q) \ {w} :
                  ErrorKind(reqs[r].ledger) = "AlreadyCompleted"

\* the daily mints issued to a user
DailyMints(u) ==
    {i \in 1..Len(mintLog) : /\ reqs[mintLog[i].req].route = "claim-daily"
                             /\ mintLog[i].to = u}

\* every request has been answered and every transaction executed
Quiescent == txpool = {} /\ \A r \in RequestIds : reqs[r].pc = "done"

\* C9: however concurrent /api/claim-daily requests for one user interleave, the
\* claims recorded for the user lie at least claimCooldown apart and each of them
\* is rewarded by at most one mint: once every request is answered and every
\* transaction executed, the user's daily mints do not outnumber the recorded
\* claims.
C9_NoDoubleDailyClaim ==
    \A u \in Users :
        /\ \A i, j \in 1..Len(claimLog[u]) :
              i < j => claimLog[u][j] - claimLog[u][i] >= claimCooldown
        /\ Quiescent => Cardinality(DailyMints(u)) <= Len(claimLog[u])

\* C10: no mint is issued for a request whose ledger operation failed or was
\* never made, and at most one mint is issued per (user, quest).
C10_MintOnlyAfterLedgerApproval ==
    /\ \A i \in 1..Len(mintLog) :
          ErrorKind(reqs[mintLog[i].req].ledger) \in {"Success", "Other"}
          /\ reqs[mintLog[i].req].ledger # "none"
    /\ \A i, j \in 1..Len(mintLog) :
          (/\ i < j
           /\ reqs[mintLog[i].req].route = "complete-quest"
           /\ reqs[mintLog[j].req].route = "complete-quest"
           /\ mintLog[i].to = mintLog[j].to) =>
              reqs[mintLog[i].req].questId # reqs[mintLog[j].req].questId

\* the response of a request as its client sees it
Response(r) == <<reqs[r].status, reqs[r].error>>

\* the ledger write of request r was taken and executed with success, and its
\* distributeReward threw
MintFailedAfterLedger(r) == reqs[r].threw = "mint" /\ reqs[r].ledger = Ok

\* C11: partial success is surfaced: the response of a request whose ledger
\* operation succeeded and whose mint then failed differs from the response of a
\* request of the same route whose ledger write itself failed.
C11_PartialSuccessSurfaced ==
    \A r1, r2 \in RequestIds :
        (/\ reqs[r1].route = reqs[r2].route
         /\ MintFailedAfterLedger(r1)
         /\ reqs[r2].threw = "write") => Response(r1) # Response(r2)

\* the ledger still holds what the ledger operation of request r wrote
LedgerWriteInPlace(r) ==
    IF reqs[r].route = "complete-quest"
    THEN userQuests[reqs[r].user][reqs[r].questId] =
            [completed |-> TRUE, completedAt |-> reqs[r].execAt]
    ELSE /\ dailyClaims[reqs[r].user].claimed
         /\ dailyClaims[reqs[r].user].lastClaimTime >= reqs[r].execAt
         /\ \E i \in 1..Len(claimLog[reqs[r].user]) :
               claimLog[reqs[r].user][i] = reqs[r].execAt

\* C12: a mint failure never rolls back the ledger: the step in which
\* distributeReward fails changes no ledger variable, and whenever the ledger
\* operation of a request has succeeded and its mint has failed, the completed
\* flag (resp. the daily claim) that the operation wrote is in place.
C12_MintFailureKeepsLedger ==
    [][/\ (\E r \in RequestIds : reqs[r].pc = "mint" /\ reqs'[r].threw = "mint")
          => UNCHANGED ledgerVars
       /\ \A r \in 1..Len(reqs') :
             (reqs'[r].threw = "mint" /\ reqs'[r].ledger = Ok) => LedgerWriteInPlace(r)'
      ]_vars

C12_Witness ==
    \E r \in RequestIds :
        /\ MintFailedAfterLedger(r)
        /\ reqs[r].route = "claim-daily"
        /\ dailyClaims[reqs[r].user].lastClaimTime = reqs[r].execAt

\* the step changes nothing of the ledger
LedgerUnchanged == UNCHANGED <<ledgerVars, logVars>>

\* C13: createQuest is owner-only: a call by any caller other than the owner,
\* the backend wallet included, fails with Unauthorized and leaves questCounter
\* and all quest records (and the rest of the ledger) unchanged.
C13_CreateQuestOwnerOnly ==
    [][(CallStep("createQuest") /\ last'.caller # owner) =>
          /\ ErrorKind(last'.result) = "Unauthorized"
          /\ questCounter' = questCounter
          /\ quests' = quests
          /\ LedgerUnchanged
      ]_vars

C13_Witness ==
    /\ last.op = "createQuest"
    /\ last.caller = BackendWallet
    /\ last.endDate > now
    /\ Len(last.requirements) > 0
    /\ last.result = MsgOnlyOwner
    /\ questCounter < MaxQuests

\* C14: createQuest with endDate <= the current time (endDate = now included)
\* fails and changes nothing, with InvalidSchedule when the caller is the
\* owner; and every quest record satisfies endDate > createdAt.
C14_EndDateInFuture ==
    [][/\ (CallStep("createQuest") /\ last'.endDate <= now) =>
             /\ last'.result # Ok
             /\ onlyOwner(last'.caller) => ErrorKind(last'.result) = "InvalidSchedule"
             /\ LedgerUnchanged
       /\ \A q \in QuestIds :
             q <= questCounter' => quests'[q].endDate > quests'[q].createdAt
      ]_vars

C14_Witness ==
    /\ last.op = "createQuest"
    /\ last.caller = owner
    /\ last.endDate = now
    /\ Len(last.requirements) > 0
    /\ last.result = MsgEndDate
    /\ questCounter >= 1

\* C15: createQuest with an empty requirements sequence fails and changes
\* nothing, with InvalidQuest when the caller is the owner and endDate is in the
\* future; and every stored quest has at least one requirement.
C15_RequirementsNotEmpty ==
    [][/\ (CallStep("createQuest") /\ last'.requirements = <<>>) =>
             /\ last'.result # Ok
             /\ (onlyOwner(last'.caller) /\ last'.endDate > now)
                   => ErrorKind(last'.result) = "InvalidQuest"
             /\ LedgerUnchanged
       /\ \A q \in QuestIds :
             q <= questCounter' => Len(quests'[q].requirements) >= 1
      ]_vars

C15_Witness ==
    /\ last.op = "createQuest"
    /\ last.caller = owner
    /\ last.endDate > now
    /\ last.requirements = <<>>
    /\ last.result = MsgNoRequirement
    /\ questCounter >= 1

\* C18: completeQuestForUser with questId 0 or with a questId above the quest
\* counter fails with NotFound, whoever calls it, and records no completion for
\* any user.
C18_UnknownQuestNotFound ==
    [][(/\ CallStep("completeQuestForUser")
        /\ (last'.questId = 0 \/ last'.questId > questCounter)) =>
          /\ ErrorKind(last'.result) = "NotFound"
          /\ userQuests' = userQuests
          /\ totalQuestsCompleted' = totalQuestsCompleted
          /\ LedgerUnchanged
      ]_vars

C18_Witness ==
    /\ last.op = "completeQuestForUser"
    /\ last.caller = BackendWallet
    /\ last.user = "alice"
    /\ questCounter >= 1
    /\ last.questId > questCounter
    /\ last.result = MsgNoQuest

\* C16: a successful createQuest stores exactly one new record, under the id
\* previous questCounter + 1, with isActive = true, createdAt = now and the
\* given title, reward, requirements and endDate; it leaves every other record
\* and the rest of the ledger as they were, and emits exactly one QuestCreated
\* event, which carries that id.
C16_CreateQuestEffect ==
    [][(CallStep("createQuest") /\ last'.result = Ok) =>
          LET id == questCounter + 1
          IN  /\ questCounter' = id
              /\ \A q \in QuestIds \ {id} : quests'[q] = quests[q]
              /\ quests[id] = ZeroQuest
              /\ quests'[id].id = id
              /\ quests'[id].isActive
              /\ quests'[id].createdAt = now
              /\ quests'[id].title = last'.title
              /\ quests'[id].reward = last'.reward
              /\ quests'[id].requirements = last'.requirements
              /\ quests'[id].endDate = last'.endDate
              /\ Len(last'.events) = 1
              /\ last'.events[1].name = "QuestCreated"
              /\ last'.events[1].questId = id
              /\ UNCHANGED <<owner, claimCooldown, dailyRewardAmount, userQuests,
                             totalQuestsCompleted, dailyClaims>>
      ]_vars

C16_Witness ==
    /\ last.op = "createQuest"
    /\ last.result = Ok
    /\ questCounter = 2
    /\ quests[2].title = "other quest"
    /\ quests[2].reward = 0
    /\ quests[1].title = "quest"
    /\ quests[1].reward = 50

C19_QuestRetirement ==
    [][(/\ CallStep("deactivateQuest")
        /\ last'.caller = owner
        /\ questExists(last'.questId)) =>
          /\ last'.result = Ok
          /\ quests' = [quests EXCEPT ![last'.questId].isActive = FALSE]
      ]_vars

\* the ledger holds no completion and no daily claim for address(0)
NoRecordForZeroAddress ==
    /\ \A q \in QuestIds : userQuests[ZeroAddress][q] = ZeroProgress
    /\ totalQuestsCompleted[ZeroAddress] = 0
    /\ dailyClaims[ZeroAddress] = ZeroClaim
    /\ claimLog[ZeroAddress] = <<>>

\* C20: completeQuestForUser (for an existing quest that is active and not
\* expired) and setDailyClaimed, called by the owner or the backend wallet with
\* the zero address as user, fail with InvalidUser; called by anyone with the
\* zero address they fail and leave the ledger unchanged; and no completion
\* record or daily-claim record ever exists for the zero address.
C20_ZeroUserRejected ==
    [][/\ (/\ CallStep("completeQuestForUser")
            /\ HoldsRole(last'.caller)
            /\ last'.user = ZeroAddress
            /\ questExists(last'.questId)
            /\ questIsActive(last'.questId) = Ok)
             => ErrorKind(last'.result) = "InvalidUser"
       /\ (/\ CallStep("setDailyClaimed")
            /\ HoldsRole(last'.caller)
            /\ last'.user = ZeroAddress)
             => ErrorKind(last'.result) = "InvalidUser"
       /\ (/\ (CallStep("completeQuestForUser") \/ CallStep("setDailyClaimed"))
            /\ last'.user = ZeroAddress)
             => last'.result # Ok /\ LedgerUnchanged
       /\ NoRecordForZeroAddress'
      ]_vars

C20_Witness ==
    /\ last.op = "completeQuestForUser"
    /\ last.caller = BackendWallet
    /\ last.user = ZeroAddress
    /\ last.questId = 1
    /\ last.result = MsgInvalidUser
    /\ dailyClaims["alice"].claimed
    /\ userQuests["alice"][1].completed

\* C21: a successful completeQuestForUser(user, questId) sets completed = true
\* and completedAt = now for that pair and no other, increases that user's
\* totalQuestsCompleted by exactly 1 and no other user's, and emits exactly one
\* QuestCompleted(user, questId) event; and no step changes a progress record
\* or a completed counter without being such a call with all of these effects.
C21_CompleteQuestEffect ==
    [][/\ (CallStep("completeQuestForUser") /\ last'.result = Ok) =>
             /\ ~userQuests[last'.user][last'.questId].completed
             /\ userQuests' = [userQuests EXCEPT ![last'.user][last'.questId] =
                                 [completed |-> TRUE, completedAt |-> now]]
             /\ totalQuestsCompleted' =
                   [totalQuestsCompleted EXCEPT ![last'.user] = @ + 1]
             /\ last'.events = <<[name |-> "QuestCompleted", user |-> last'.user,
                                  questId |-> last'.questId]>>
       /\ (userQuests' # userQuests \/ totalQuestsCompleted' # totalQuestsCompleted) =>
             /\ CallStep("completeQuestForUser")
             /\ last'.result = Ok
             /\ userQuests' # userQuests
             /\ totalQuestsCompleted' # totalQuestsCompleted
      ]_vars

C21_Witness ==
    /\ last.op = "completeQuestForUser"
    /\ last.result = Ok
    /\ last.user = "alice"
    /\ last.questId = 2
    /\ now >= 1
    /\ userQuests["alice"][2] = [completed |-> TRUE, completedAt |-> now]
    /\ totalQuestsCompleted["alice"] = 2

RECURSIVE CompletedUpTo(_, _)
CompletedUpTo(user, n) ==
    IF n = 0 THEN <<>>
    ELSE IF userQuests[user][n].completed
         THEN Append(CompletedUpTo(user, n - 1), n)
         ELSE CompletedUpTo(user, n - 1)

\* C23: getUserDetails(user).completedQuestIds is exactly the ascending list of
\* the quest ids in 1..questCounter with completed = true for the user: every
\* such id once, no other id and no placeholder 0.
C23_CompletedQuestIdsExact ==
    \A u \in Users :
        LET ids == getUserDetails(u).completedQuestIds
        IN  /\ ids = CompletedUpTo(u, questCounter)
            /\ \A k \in 1..Len(ids) :
                  /\ ids[k] \in 1..questCounter
                  /\ userQuests[u][ids[k]].completed
            /\ \A k, l \in 1..Len(ids) : k < l => ids[k] < ids[l]
            /\ \A q \in 1..questCounter :
                  userQuests[u][q].completed => \E k \in 1..Len(ids) : ids[k] = q

C23_Witness ==
    /\ questCounter = 2
    /\ getUserDetails("alice").completedQuestIds = <<1, 2>>
    /\ getUserDetails("bob").completedQuestIds = <<2>>

\* C24: the daily fields of getUserDetails: if lastClaimTime = 0 or
\* now - lastClaimTime >= claimCooldown then canClaimDaily = true and
\* timeUntilNextClaim = 0, otherwise canClaimDaily = false and
\* timeUntilNextClaim = claimCooldown - (now - lastClaimTime); so always
\* 0 <= timeUntilNextClaim <= claimCooldown, and canClaimDaily holds exactly
\* when timeUntilNextClaim = 0.
C24_DailyFields ==
    \A u \in Users :
        LET d == getUserDetails(u)
            lastClaimTime == dailyClaims[u].lastClaimTime
        IN  /\ IF lastClaimTime = 0 \/ now - lastClaimTime >= claimCooldown
               THEN d.canClaimDaily /\ d.timeUntilNextClaim = 0
               ELSE /\ ~d.canClaimDaily
                    /\ d.timeUntilNextClaim = claimCooldown - (now - lastClaimTime)
            /\ 0 <= d.timeUntilNextClaim
            /\ d.timeUntilNextClaim <= claimCooldown
            /\ d.canClaimDaily <=> d.timeUntilNextClaim = 0
            /\ lastClaimTime <= now

C24_Witness ==
    /\ claimCooldown = OneHour + 1
    /\ ~getUserDetails("alice").canClaimDaily
    /\ getUserDetails("alice").timeUntilNextClaim = 1
    /\ getUserDetails("bob").canClaimDaily
    /\ dailyClaims["bob"].lastClaimTime # 0

\* the ledger holds no completion and no daily claim of the user
NoRecordedActivity(u) ==
    /\ \A q \in QuestIds : userQuests[u][q] = ZeroProgress
    /\ totalQuestsCompleted[u] = 0
    /\ dailyClaims[u] = ZeroClaim

\* C25: getUserDetails never fails, for any caller and any user address, in
\* any reachable state; for a user with no recorded activity it returns an
\* empty completedQuestIds, totalQuestsCompleted = 0, lastClaimTime = 0,
\* claimed = false, canClaimDaily = true and timeUntilNextClaim = 0.
C25_GetUserDetailsTotal ==
    /\ \A u \in Users : getUserDetailsResult(u) = Ok
    /\ last.op = "getUserDetails" =>
          /\ last.result = Ok
          /\ last.returns = <<getUserDetails(last.user)>>
          /\ NoRecordedActivity(last.user) =>
                last.returns[1] =
                   [completedQuestIds |-> <<>>, totalQuestsCompleted |-> 0,
                    dailyClaimInfo |-> [lastClaimTime |-> 0, claimed |-> FALSE],
                    canClaimDaily |-> TRUE, timeUntilNextClaim |-> 0]

C25_Witness ==
    /\ last.op = "getUserDetails"
    /\ last.caller = "alice"
    /\ last.user = "bob"
    /\ NoRecordedActivity("bob")
    /\ totalQuestsCompleted["alice"] = 2
    /\ dailyClaims["alice"].claimed

\* the view functions of the contract
ViewOps == {"getUserDetails", "getQuest", "getAllQuests", "getTotalQuests"}

\* C26: the read operations are pure: a call of getUserDetails, getQuest,
\* getAllQuests or getTotalQuests, by any caller, whether it returns or
\* reverts, leaves questCounter, quests, the progress records, the completed
\* counters, the daily-claim records and owner unchanged and emits no event.
C26_ReadsArePure ==
    [][(last = NoCall /\ last'.op \in ViewOps) =>
          /\ UNCHANGED <<questCounter, quests, userQuests, totalQuestsCompleted,
                         dailyClaims, owner>>
          /\ LedgerUnchanged
          /\ last'.events = <<>>
      ]_vars

C26_Witness ==
    /\ last.op = "getQuest"
    /\ last.caller = "alice"
    /\ last.questId = 1
    /\ last.result = Ok
    /\ last.returns = <<quests[1]>>
    /\ totalQuestsCompleted["alice"] = 1
    /\ dailyClaims["bob"].claimed

\* C27: getQuest(id) fails with NotFound exactly when id is 0 or greater than
\* questCounter, and otherwise returns the record whose id field equals id;
\* getAllQuests returns every quest ever created, in ascending id order, and
\* its length is questCounter.
C27_QuestViews ==
    /\ \A id \in 0..(MaxQuests + 1) :
          /\ ErrorKind(getQuestResult(id)) = "NotFound" <=> (id = 0 \/ id > questCounter)
          /\ ErrorKind(getQuestResult(id)) # "NotFound" =>
                getQuestResult(id) = Ok /\ getQuest(id).id = id
    /\ last.op = "getQuest" =>
          /\ ErrorKind(last.result) = "NotFound"
                <=> (last.questId = 0 \/ last.questId > questCounter)
          /\ ErrorKind(last.result) # "NotFound" =>
                /\ last.result = Ok
                /\ Len(last.returns) = 1
                /\ last.returns[1].id = last.questId
                /\ last.returns[1] = quests[last.questId]
    /\ Len(getAllQuests) = questCounter
    /\ \A i \in 1..Len(getAllQuests) :
          getAllQuests[i].id = i /\ getAllQuests[i] = quests[i]
    /\ Len(questLog) = questCounter
    /\ \A k \in 1..Len(questLog) :
          \E i \in 1..Len(getAllQuests) : getAllQuests[i].id = questLog[k]
    /\ last.op = "getAllQuests" => last.result = Ok /\ last.returns = <<getAllQuests>>

C27_Witness ==
    /\ last.op = "getAllQuests"
    /\ Len(last.returns[1]) = 2
    /\ last.returns[1][1].id = 1
    /\ last.returns[1][2].id = 2
    /\ last.returns[1][1].title # last.returns[1][2].title

\* the step is a successful setDailyClaimed for user u
ClaimStep(u) ==
    CallStep("setDailyClaimed") /\ last'.result = Ok /\ last'.user = u

\* C28: the daily-claim state machine of a user, Claimable being canClaimDaily
\* and CoolingDown its negation: a successful setDailyClaimed is made from
\* Claimable and moves the user to CoolingDown; a Claimable user stays
\* Claimable under every other step; a CoolingDown user becomes Claimable by a
\* clock step alone, with no ledger operation, exactly when claimCooldown has
\* elapsed since lastClaimTime; and under advancing time every CoolingDown user
\* eventually becomes Claimable.
C28_DailyClaimStateMachine ==
    /\ [][\A u \in Users :
            /\ ClaimStep(u) => canClaimDaily(u) /\ ~canClaimDaily(u)'
            /\ (canClaimDaily(u) /\ ~ClaimStep(u)) => canClaimDaily(u)'
            /\ (~canClaimDaily(u) /\ canClaimDaily(u)') =>
                  /\ now' = now + 1
                  /\ LedgerUnchanged
                  /\ last' = last
                  /\ now' - dailyClaims[u].lastClaimTime = claimCooldown
            /\ (~canClaimDaily(u) /\ now' - dailyClaims[u].lastClaimTime >= claimCooldown)
                  => canClaimDaily(u)'
         ]_vars
    /\ \A u \in Users : (~canClaimDaily(u)) ~> canClaimDaily(u)

C28_Witness ==
    /\ canClaimDaily("alice")
    /\ Len(claimLog["alice"]) = 1
    /\ ~canClaimDaily("bob")
    /\ Len(claimLog["bob"]) = 2
    /\ last = NoCall

C31_BackendOnlyCompletion ==
    [][(CallStep("completeQuestForUser") /\ last'.caller # BackendWallet) =>
          last'.result # Ok /\ LedgerUnchanged
      ]_vars

\* the quest of request r has a verification rule
HasRule(r) == reqs[r].route = "complete-quest" /\ reqs[r].questId \in {2, 3, 4}

\* the handler of request r has issued its ledger write
WriteIssued(r) == reqs[r].pc \in {"write", "mint"} \/ reqs[r].ledger # "none"

\* C32: verification precedes completion: for a quest with a verification rule
\* (2 tweet, 3 native balance, 4 token balance), /api/complete-quest issues the
\* completeQuestForUser write and the mint only after the check of the rule has
\* passed; when the check fails or errors, the request ends with an error, no
\* ledger write and no mint.
C32_VerificationPrecedesCompletion ==
    \A r \in RequestIds :
        HasRule(r) =>
           /\ (WriteIssued(r) \/ reqs[r].minted) => reqs[r].checked = "passed"
           /\ reqs[r].checked \in {"failed", "error"} =>
                 /\ reqs[r].pc = "done"
                 /\ reqs[r].status >= 400
                 /\ ~WriteIssued(r)
                 /\ ~reqs[r].minted

\* C33: the read and the write agree on claimability: in every state, for
\* every non-null user, canClaimDaily of getUserDetails is true exactly when
\* setDailyClaimed for that user, called at the same time by the owner or the
\* backend, would succeed; a user who has never claimed included.
C33_ReadWriteAgreement ==
    \A u \in Users \ {ZeroAddress}, sender \in Callers :
        HoldsRole(sender) =>
            (getUserDetails(u).canClaimDaily <=> setDailyClaimedResult(sender, u) = Ok)

\* the functions of the contract that write its storage
Mutations == {"createQuest", "completeQuestForUser", "setDailyClaimed"}

\* C34: every failing mutation is a no-op: when createQuest,
\* completeQuestForUser or setDailyClaimed fails, with whatever error, the
\* quest counter, the quest records, the progress records, the completed
\* counters and the daily-claim records are what they were before the call,
\* and no event is emitted.
C34_FailingMutationIsNoOp ==
    [][\A op \in Mutations :
          (CallStep(op) /\ last'.result # Ok) =>
              /\ LedgerUnchanged
              /\ last'.events = <<>>
      ]_vars

\* a setDailyClaimed has failed on the cooldown of a claim recorded before
C34_Witness ==
    /\ last.op = "setDailyClaimed"
    /\ last.result = MsgCooldown
    /\ dailyClaims[last.user].claimed
    /\ questCounter > 0

C36_CompletionsWellFounded ==
    \A u \in Users, q \in QuestIds :
        userQuests[u][q].completed =>
            /\ 1 <= q /\ q <= questCounter
            /\ u # ZeroAddress
            /\ quests[q].createdAt <= userQuests[u][q].completedAt
            /\ userQuests[u][q].completedAt <= quests[q].endDate

\* a completion is on record for a quest that has expired since
C36_Witness ==
    \E u \in Users, q \in QuestIds :
        /\ userQuests[u][q].completed
        /\ userQuests[u][q].completedAt > quests[q].createdAt
        /\ now > quests[q].endDate

\* C37: recorded timestamps are never in the future: lastClaimTime of every
\* user and completedAt of every progress record are at most the current time
\* (so now - lastClaimTime does not underflow), and lastClaimTime of a user
\* never decreases.
C37_TimestampsNotInFuture ==
    [][/\ \A u \in Users :
             /\ dailyClaims'[u].lastClaimTime <= now'
             /\ now' - dailyClaims'[u].lastClaimTime >= 0
             /\ dailyClaims'[u].lastClaimTime >= dailyClaims[u].lastClaimTime
             /\ \A q \in QuestIds : userQuests'[u][q].completedAt <= now'
      ]_vars

\* a user has claimed twice, at different times, and completed a quest in an
\* earlier block
C37_Witness ==
    \E u \in Users :
        /\ Len(claimLog[u]) >= 2
        /\ dailyClaims[u].lastClaimTime > claimLog[u][1]
        /\ \E q \in QuestIds : /\ userQuests[u][q].completed
                               /\ userQuests[u][q].completedAt < now

\* C38: the pre-check of /api/claim-daily: the route issues the
\* setDailyClaimed write, and then the mint, only if the getUserDetails read
\* made earlier in the same request returned canClaimDaily = true; when the
\* read returns false, the request ends with the error "Daily claim is not
\* available" carrying timeUntilNextClaim and lastClaimTime (both of a claim
\* on record: positive), with no ledger write and no mint.
C38_ClaimDailyPreCheck ==
    \A r \in RequestIds :
        reqs[r].route = "claim-daily" =>
           /\ (WriteIssued(r) \/ reqs[r].minted) => reqs[r].read = <<TRUE>>
           /\ reqs[r].read = <<FALSE>> =>
                 /\ reqs[r].pc = "done"
                 /\ reqs[r].status = 400
                 /\ reqs[r].error = "Daily claim is not available"
                 /\ Len(reqs[r].details) = 1
                 /\ reqs[r].details[1].canClaimDaily = FALSE
                 /\ reqs[r].details[1].timeUntilNextClaim \in 1..claimCooldown
                 /\ reqs[r].details[1].lastClaimTime \in 1..now
                 /\ ~WriteIssued(r)
                 /\ ~reqs[r].minted

\* one request has claimed and minted after a read that returned true, and a
\* later request was refused after a read that returned false
C38_Witness ==
    \E r1, r2 \in RequestIds :
        /\ reqs[r1].route = "claim-daily" /\ reqs[r1].read = <<TRUE>>
        /\ reqs[r1].ledger = Ok /\ reqs[r1].minted
        /\ reqs[r2].route = "claim-daily" /\ reqs[r2].read = <<FALSE>>
        /\ reqs[r2].pc = "done"

\* the mints issued for request r
MintsOf(r) == {i \in 1..Len(mintLog) : mintLog[i].req = r}

====
